---------------------------- MODULE Spec2Model ----------------------------
(***************************************************************************)
(* A model of the two automata of kanpole/pattern:                         *)
(*   - StateCharacter and its five CharacterState classes                  *)
(*     (src/include/behavioral/state.h), specification Spec; the idle      *)
(*     regeneration alone, specification SpecRegen; the script of          *)
(*     PlayerController::simulateGameplay, specification SpecScript;       *)
(*     inputs between updates of one deltaTime, specification SpecLanding; *)
(*   - AIEnemy, the AIBehavior classes and StrategyAIController            *)
(*     (src/include/behavioral/strategy.h), specification SpecAI; the      *)
(*     eligibility predicates alone, specification SpecEligible;           *)
(*     repeated selection, SpecSelect; two battles compared, SpecPair;     *)
(*     the pursuit of a target, SpecPursuit.                               *)
(*                                                                         *)
(* Numbers.  The code computes in float.  The model computes in fixed      *)
(* point: a time is an integer number of milliseconds (TimeScale per time  *)
(* unit), the jump velocity is kept in half units (VelScale), a character  *)
(* position in 1/PosScale units.  With these scales every product the      *)
(* state machine forms is an integer, so its arithmetic is exact.          *)
(***************************************************************************)
EXTENDS Integers, Sequences, FiniteSets

VARIABLES
    ch,      \* the StateCharacter: attributes, active state, the state's timers
    ai,      \* the AIEnemy with its StrategyAIController
    last     \* the call the driver made last: [op, arg, log], log its events

vars == <<ch, ai, last>>

---------------------------------------------------------------------------
(* Units *)

TimeScale == 1000
VelScale  == 2
PosScale  == VelScale * TimeScale

(* Bounds of the model *)
MaxX == 2        \* |x| <= MaxX units
MaxY == 72       \* y <= MaxY units: a jump from the ground at steps of 0.125 peaks at 71.875

DtSet == {125, 1000}                      \* deltaTime values the driver passes
InputCodes == {0, 32, 65, 68, 74, 75, 99} \* 99: a code no handler matches
StateNames == {"idle", "walking", "jumping", "attacking", "casting"}
NameArgs == StateNames \cup {"flying"}    \* "flying": not a registered name

---------------------------------------------------------------------------
(* StateCharacter: accessors and mutators *)

Max(a, b) == IF a >= b THEN a ELSE b
Min(a, b) == IF a <= b THEN a ELSE b

maxMana == 50

setMana(c, mp) == [c EXCEPT !.mana = Max(0, Min(maxMana, mp))]

move(c, deltaX, deltaY) == [c EXCEPT !.x = c.x + deltaX, !.y = c.y + deltaY]

(* Program constants of the state classes *)
walkSpeed      == 100
airSpeed       == 50
frameDt        == 16                 \* the 0.016f of the handlers
jumpForce      == 300
gravity        == -500
attackDuration == TimeScale \div 2   \* 0.5f
castDuration   == TimeScale          \* 1.0f
manaCost       == 10
manaRegen      == 5
idleManaCap    == 50

(* a guard that lets every state go to every other state *)
canTransitionToAny(s, newState) == newState # s

(* canTransitionTo of the five state classes *)
canTransitionTo(s, newState) ==
    CASE s = "idle"      -> newState \in {"walking", "jumping", "attacking", "casting"}
      [] s = "walking"   -> newState \in {"idle", "jumping", "attacking"}
      [] s = "jumping"   -> newState \in {"idle", "attacking"}
      [] s = "attacking" -> newState \in {"idle", "jumping"}
      [] s = "casting"   -> newState \in {"idle", "walking"}
      [] OTHER           -> FALSE

(* an exit hook of Walking that leaves the speed as it is *)
onExitKeepSpeed(c) == [c EXCEPT !.log = Append(c.log, <<"exit", c.state>>)]

(* onExit: only WalkingState::onExit has an effect *)
onExit(c) ==
    LET c1 == [c EXCEPT !.log = Append(c.log, <<"exit", c.state>>)]
    IN  IF c.state = "walking" THEN [c1 EXCEPT !.moveSpeed = 0] ELSE c1

(* a setState that does not refill the slot of the registry *)
createStateInstanceNone(c, stateName) == c

(* StateCharacter::createStateInstance: states[name] holds a fresh instance *)
createStateInstance(c, stateName) == [c EXCEPT !.reg = c.reg \cup {stateName}]

RECURSIVE setState(_, _)

(* enter hooks of which Casting's does not look at the mana *)
onEnterNoManaCheck(c) ==
    LET c1 == [c EXCEPT !.log = Append(c.log, <<"enter", c.state>>)]
    IN  CASE c.state = "idle"      -> [c1 EXCEPT !.moveSpeed = 0]
          [] c.state = "walking"   -> [c1 EXCEPT !.moveSpeed = walkSpeed]
          [] c.state = "jumping"   -> [c1 EXCEPT !.grounded = FALSE,
                                                 !.jumpVelocity = jumpForce * VelScale]
          [] c.state = "attacking" -> [c1 EXCEPT !.attackTimer = 0, !.moveSpeed = 0]
          [] c.state = "casting"   -> [c1 EXCEPT !.castTimer = 0, !.moveSpeed = 0]
          [] OTHER -> c1

(* onEnter of the state that is now current (c.state) *)
onEnter(c) ==
    LET c1 == [c EXCEPT !.log = Append(c.log, <<"enter", c.state>>)]
    IN  CASE c.state = "idle"      -> [c1 EXCEPT !.moveSpeed = 0]
          [] c.state = "walking"   -> [c1 EXCEPT !.moveSpeed = walkSpeed]
          [] c.state = "jumping"   -> [c1 EXCEPT !.grounded = FALSE,
                                                 !.jumpVelocity = jumpForce * VelScale]
          [] c.state = "attacking" -> [c1 EXCEPT !.attackTimer = 0, !.moveSpeed = 0]
          [] c.state = "casting"   ->
                LET c2 == [c1 EXCEPT !.castTimer = 0, !.moveSpeed = 0]
                IN  IF c2.mana < manaCost THEN setState(c2, "idle") ELSE c2
          [] OTHER -> c1

(* a change of state that leaves out the exit hook of the old state *)
doTransitionNoExit(c, stateName) ==
    LET c2 == [c EXCEPT
                  !.state = IF stateName \in c.reg THEN stateName ELSE "none",
                  !.reg = c.reg \ {stateName},
                  !.attackTimer = 0,
                  !.castTimer = 0,
                  !.log = Append(c.log, <<"swap", c.state, stateName>>)]
        c3 == onEnter(c2)
    IN  createStateInstance(c3, stateName)

(* The accepted branch of StateCharacter::setState: exit hook, move of the   *)
(* registry's instance into currentState, enter hook, refill of the slot.    *)
(* The instance that was current is destroyed by the move assignment: its    *)
(* timers are gone (the fields read 0, the value of a fresh instance).  A    *)
(* slot of the registry that holds no instance would make the new current    *)
(* state null ("none").                                                      *)
doTransition(c, stateName) ==
    LET c1 == IF c.state # "none" THEN onExit(c) ELSE c
        c2 == [c1 EXCEPT
                  !.state = IF stateName \in c1.reg THEN stateName ELSE "none",
                  !.reg = c1.reg \ {stateName},
                  !.attackTimer = 0,
                  !.castTimer = 0,
                  !.log = Append(c1.log, <<"swap", c1.state, stateName>>)]
        c3 == onEnter(c2)
    IN  createStateInstance(c3, stateName)

(* setState without the canTransitionTo check *)
setStateNoGuard(c, stateName) ==
    IF stateName \notin StateNames THEN c ELSE doTransition(c, stateName)

(* setState looking the name up with operator[]: an unknown name yields a    *)
(* null instance                                                             *)
setStateNoFind(c, stateName) ==
    IF stateName \notin StateNames THEN [c EXCEPT !.state = "none"]
    ELSE IF c.state # "none" /\ ~canTransitionTo(c.state, stateName) THEN c
    ELSE doTransition(c, stateName)

(* StateCharacter::setState *)
setState(c, stateName) ==
    IF stateName \notin StateNames THEN c
    ELSE IF c.state # "none" /\ ~canTransitionTo(c.state, stateName) THEN c
    ELSE doTransition(c, stateName)

(* an Idle that asks neither for the ground nor for the mana *)
IdleHandleInputNoGuards(c, inputCode) ==
    CASE inputCode \in {65, 68} -> setState(c, "walking")
      [] inputCode = 32 -> setState(c, "jumping")
      [] inputCode = 74 -> setState(c, "attacking")
      [] inputCode = 75 -> setState(c, "casting")
      [] OTHER -> c

(* handleInput of the five state classes *)
IdleHandleInput(c, inputCode) ==
    CASE inputCode \in {65, 68} -> setState(c, "walking")
      [] inputCode = 32 -> IF c.grounded THEN setState(c, "jumping") ELSE c
      [] inputCode = 74 -> setState(c, "attacking")
      [] inputCode = 75 -> IF c.mana >= 10 THEN setState(c, "casting") ELSE c
      [] OTHER -> c

(* a Walking that takes every code it has no case for as "no input" *)
WalkingHandleInputStop(c, inputCode) ==
    CASE inputCode = 65 -> move(c, -((walkSpeed * frameDt * PosScale) \div TimeScale), 0)
      [] inputCode = 68 -> move(c, (walkSpeed * frameDt * PosScale) \div TimeScale, 0)
      [] inputCode = 32 -> IF c.grounded THEN setState(c, "jumping") ELSE c
      [] inputCode = 74 -> setState(c, "attacking")
      [] OTHER -> setState(c, "idle")

WalkingHandleInput(c, inputCode) ==
    CASE inputCode = 65 -> move(c, -((walkSpeed * frameDt * PosScale) \div TimeScale), 0)
      [] inputCode = 68 -> move(c, (walkSpeed * frameDt * PosScale) \div TimeScale, 0)
      [] inputCode = 32 -> IF c.grounded THEN setState(c, "jumping") ELSE c
      [] inputCode = 74 -> setState(c, "attacking")
      [] inputCode = 0  -> setState(c, "idle")
      [] OTHER -> c

JumpingHandleInput(c, inputCode) ==
    CASE inputCode = 65 -> move(c, -((airSpeed * frameDt * PosScale) \div TimeScale), 0)
      [] inputCode = 68 -> move(c, (airSpeed * frameDt * PosScale) \div TimeScale, 0)
      [] inputCode = 74 -> setState(c, "attacking")
      [] OTHER -> c

(* an attack that the attack code starts over *)
AttackingHandleInputRestart(c, inputCode) ==
    IF inputCode = 74 THEN [c EXCEPT !.attackTimer = 0] ELSE c

AttackingHandleInput(c, inputCode) == c

(* a cast that is paid for when a move interrupts it *)
CastingHandleInputCharge(c, inputCode) ==
    IF inputCode = 65 \/ inputCode = 68
    THEN setState(setMana(c, c.mana - manaCost), "walking")
    ELSE c

CastingHandleInput(c, inputCode) ==
    IF inputCode = 65 \/ inputCode = 68 THEN setState(c, "walking") ELSE c

(* StateCharacter::handleInput *)
handleInput(c, inputCode) ==
    CASE c.state = "idle"      -> IdleHandleInput(c, inputCode)
      [] c.state = "walking"   -> WalkingHandleInput(c, inputCode)
      [] c.state = "jumping"   -> JumpingHandleInput(c, inputCode)
      [] c.state = "attacking" -> AttackingHandleInput(c, inputCode)
      [] c.state = "casting"   -> CastingHandleInput(c, inputCode)
      [] OTHER -> c

(* update of the five state classes; deltaTime in milliseconds *)
IdleUpdate(c, deltaTime) ==
    IF c.mana < idleManaCap
    THEN setMana(c, c.mana + (manaRegen * deltaTime) \div TimeScale)
    ELSE c

(* a Walking that ends by itself *)
WalkingUpdateStop(c, deltaTime) == setState(c, "idle")

WalkingUpdate(c, deltaTime) == c

(* a jump that moves with the velocity it had before gravity is applied *)
JumpingUpdatePosFirst(c, deltaTime) ==
    LET c1 == move(c, 0, c.jumpVelocity * deltaTime)
        c2 == [c1 EXCEPT !.jumpVelocity =
                  c.jumpVelocity + (gravity * VelScale * deltaTime) \div TimeScale]
    IN  IF c2.y <= 0
        THEN setState([c2 EXCEPT !.y = 0, !.grounded = TRUE, !.jumpVelocity = 0], "idle")
        ELSE c2

(* a landing that forgets to set the grounded flag *)
JumpingUpdateNoGround(c, deltaTime) ==
    LET currentVelocity == c.jumpVelocity + (gravity * VelScale * deltaTime) \div TimeScale
        c1 == [c EXCEPT !.jumpVelocity = currentVelocity]
        c2 == move(c1, 0, currentVelocity * deltaTime)
    IN  IF c2.y <= 0
        THEN setState([c2 EXCEPT !.y = 0, !.jumpVelocity = 0], "idle")
        ELSE c2

JumpingUpdate(c, deltaTime) ==
    LET currentVelocity == c.jumpVelocity + (gravity * VelScale * deltaTime) \div TimeScale
        c1 == [c EXCEPT !.jumpVelocity = currentVelocity]
        c2 == move(c1, 0, currentVelocity * deltaTime)
    IN  IF c2.y <= 0
        THEN setState([c2 EXCEPT !.y = 0, !.grounded = TRUE, !.jumpVelocity = 0], "idle")
        ELSE c2

(* an attack that always ends in idle, airborne or not *)
AttackingUpdateIdle(c, deltaTime) ==
    LET c1 == [c EXCEPT !.attackTimer = c.attackTimer + deltaTime]
    IN  IF c1.attackTimer >= attackDuration THEN setState(c1, "idle") ELSE c1

AttackingUpdate(c, deltaTime) ==
    LET c1 == [c EXCEPT !.attackTimer = c.attackTimer + deltaTime]
    IN  IF c1.attackTimer >= attackDuration
        THEN IF c1.grounded THEN setState(c1, "idle") ELSE setState(c1, "jumping")
        ELSE c1

(* a spell that costs nothing *)
castSpellFree(c) == c

castSpell(c) == setMana(c, c.mana - manaCost)

CastingUpdate(c, deltaTime) ==
    LET c1 == [c EXCEPT !.castTimer = c.castTimer + deltaTime]
    IN  IF c1.castTimer >= castDuration
        THEN setState(castSpell(c1), "idle")
        ELSE c1

(* StateCharacter::update *)
update(c, deltaTime) ==
    CASE c.state = "idle"      -> IdleUpdate(c, deltaTime)
      [] c.state = "walking"   -> WalkingUpdate(c, deltaTime)
      [] c.state = "jumping"   -> JumpingUpdate(c, deltaTime)
      [] c.state = "attacking" -> AttackingUpdate(c, deltaTime)
      [] c.state = "casting"   -> CastingUpdate(c, deltaTime)
      [] OTHER -> c

(* StateCharacter::initializeStates and the constructor *)
initializeStates(c) == [c EXCEPT !.reg = StateNames]

NewCharacter ==
    setState(initializeStates(
        [state |-> "none", x |-> 0, y |-> 0, mana |-> 50, moveSpeed |-> 100,
         grounded |-> TRUE, jumpVelocity |-> 0, attackTimer |-> 0, castTimer |-> 0,
         reg |-> {}, log |-> <<>>]), "idle")

InBounds(c) ==
    /\ c.x <= MaxX * PosScale /\ -c.x <= MaxX * PosScale
    /\ c.y <= MaxY * PosScale

(* A call starts with an empty event log; the log of the finished call is   *)
(* kept in last.log, the character is stored without it.                     *)
Begin(c) == [c EXCEPT !.log = <<>>]

---------------------------------------------------------------------------
(***************************************************************************)
(* AIEnemy, the behaviours and StrategyAIController (strategy.h).           *)
(*                                                                         *)
(* Positions and the speed are kept in 1/AScale units, times in            *)
(* milliseconds.  A step of moveTowards or flee is dx/distance*speed*dt;   *)
(* the model follows only runs in which every such step, and every         *)
(* halving or 1.5-fold of the speed, is a whole number of 1/AScale units   *)
(* (field exact): on them its arithmetic is that of the reals.  HardAI     *)
(* passes deltaTime*1.5 on, rounded down to a whole millisecond.           *)
(***************************************************************************)

AScale == 4

(* Bounds of the model *)
MaxPos   == 120    \* |x|, |y| <= MaxPos units
MaxSpeed == 120    \* speed <= MaxSpeed units
MaxUpdates == 4    \* calls of StrategyAIController::update by the driver in one run
MaxDepth == 6      \* nested StrategyAIController::update calls before the stack is taken as exhausted

DtSetAI == {500, 1000}
TargetSet == {<<100, 0>>}                       \* target positions, in units
DamageSet == {50, 85}                           \* damage amounts: health 100, 50, 15, 0
BehaviorNames == {"Patrol", "Chase", "Attack", "Flee", "Defend", "Berserk"}
ForceArgs == {"Patrol", "Attack", "Defend", "Dance"}   \* "Dance": not a behaviour name
Difficulties == {"normal", "easy", "hard"}

(* Program constants of strategy.h *)
maxHealth              == 100
initialSpeed           == 50
attackRange            == 30
attackCooldown         == TimeScale        \* 1.0f
defendDuration         == 2 * TimeScale    \* 2.0f
behaviorUpdateInterval == TimeScale        \* 1.0f
arrivalRadiusSq        == 25

controllerWaypoints == << <<0, 0>>, <<100, 0>>, <<100, 100>>, <<0, 100>> >>
easyWaypoints       == << <<0, 0>>, <<50, 0>>, <<50, 50>>, <<0, 50>> >>

(* The order of StrategyAIController::availableBehaviors *)
availableBehaviors == <<"Patrol", "Chase", "Attack", "Flee", "Defend", "Berserk">>

(* The priority the comment of selectBestBehavior and the specification state *)
statedPriority == <<"Flee", "Berserk", "Attack", "Defend", "Chase", "Patrol">>

RECURSIVE IsqrtIn(_, _, _)
IsqrtIn(n, lo, hi) ==
    IF lo >= hi THEN lo
    ELSE LET mid == (lo + hi + 1) \div 2
         IN  IF mid * mid <= n THEN IsqrtIn(n, mid, hi) ELSE IsqrtIn(n, lo, mid - 1)

(* floor of the square root *)
Isqrt(n) == IsqrtIn(n, 0, 4 * (MaxPos + 1) * AScale)

(* AIEnemy::setBehavior with a fresh instance of the named behaviour *)
setBehavior(s, name) ==
    [s EXCEPT !.behavior = name, !.lastAttackTime = 0, !.defendTimer = 0,
              !.log = Append(s.log, <<"switch", s.behavior, name>>)]

(* the square of AIEnemy::getDistanceToTarget, in 1/AScale units *)
DistSqToTarget(s) ==
    (s.targetX - s.x) * (s.targetX - s.x) + (s.targetY - s.y) * (s.targetY - s.y)

RangeSq == (attackRange * AScale) * (attackRange * AScale)

(* canExecute that does not ask whether the enemy is alive *)
canExecuteIgnoringHealth(s, name) ==
    CASE name = "Chase"   -> s.hasTarget /\ DistSqToTarget(s) > RangeSq
      [] name = "Attack"  -> s.hasTarget /\ DistSqToTarget(s) <= RangeSq
      [] name = "Flee"    -> 10 * s.health < 3 * maxHealth
      [] name = "Defend"  -> 10 * s.health >= 3 * maxHealth /\ 10 * s.health <= 6 * maxHealth
      [] name = "Berserk" -> 10 * s.health < 2 * maxHealth
      [] OTHER -> TRUE

(* canExecute with Defend's upper bound exclusive and Attack's range exclusive *)
canExecuteStrict(s, name) ==
    CASE name = "Patrol"  -> s.health > 0
      [] name = "Chase"   -> s.health > 0 /\ s.hasTarget /\ DistSqToTarget(s) >= RangeSq
      [] name = "Attack"  -> s.health > 0 /\ s.hasTarget /\ DistSqToTarget(s) < RangeSq
      [] name = "Flee"    -> s.health > 0 /\ 10 * s.health < 3 * maxHealth
      [] name = "Defend"  -> s.health > 0 /\ 10 * s.health >= 3 * maxHealth
                                          /\ 10 * s.health < 6 * maxHealth
      [] name = "Berserk" -> s.health > 0 /\ 10 * s.health < 2 * maxHealth
      [] name = "EasyAI"  -> s.health > 0
      [] name = "HardAI"  -> s.health > 0
      [] OTHER -> FALSE

(* canExecute of the behaviour classes.  health/maxHealth < 0.3f is         *)
(* 10*health < 3*maxHealth: the float quotient of two small integers is the *)
(* float nearest the real quotient, as the literal is.                      *)
canExecute(s, name) ==
    CASE name = "Patrol"  -> s.health > 0
      [] name = "Chase"   -> s.health > 0 /\ s.hasTarget /\ DistSqToTarget(s) > RangeSq
      [] name = "Attack"  -> s.health > 0 /\ s.hasTarget /\ DistSqToTarget(s) <= RangeSq
      [] name = "Flee"    -> s.health > 0 /\ 10 * s.health < 3 * maxHealth
      [] name = "Defend"  -> s.health > 0 /\ 10 * s.health >= 3 * maxHealth
                                          /\ 10 * s.health <= 6 * maxHealth
      [] name = "Berserk" -> s.health > 0 /\ 10 * s.health < 2 * maxHealth
      [] name = "EasyAI"  -> s.health > 0
      [] name = "HardAI"  -> s.health > 0
      [] OTHER -> FALSE

(* AIEnemy::moveTowards *)
moveTowards(s, tX, tY, deltaTime) ==
    LET dx == tX - s.x
        dy == tY - s.y
        d2 == dx * dx + dy * dy
        distance == Isqrt(d2)
        step == (s.speed * deltaTime) \div TimeScale
    IN  IF d2 > AScale * AScale
        THEN [s EXCEPT !.x = s.x + (dx * step) \div distance,
                       !.y = s.y + (dy * step) \div distance,
                       !.exact = /\ s.exact
                                 /\ distance * distance = d2
                                 /\ (s.speed * deltaTime) % TimeScale = 0
                                 /\ (dx * step) % distance = 0
                                 /\ (dy * step) % distance = 0]
        ELSE s

(* AIEnemy::flee *)
flee(s, fromX, fromY, deltaTime) ==
    LET dx == s.x - fromX
        dy == s.y - fromY
        d2 == dx * dx + dy * dy
        distance == Isqrt(d2)
        step == (s.speed * 3 * deltaTime) \div (2 * TimeScale)
    IN  IF d2 > 0
        THEN [s EXCEPT !.x = s.x + (dx * step) \div distance,
                       !.y = s.y + (dy * step) \div distance,
                       !.exact = /\ s.exact
                                 /\ distance * distance = d2
                                 /\ (s.speed * 3 * deltaTime) % (2 * TimeScale) = 0
                                 /\ (dx * step) % distance = 0
                                 /\ (dy * step) % distance = 0]
        ELSE s

(* AIEnemy::patrol.  currentWaypoint is a function-local static: one        *)
(* counter for the whole process.  It is only read modulo the number of     *)
(* waypoints, 4 in both lists, so it is kept modulo 4.                      *)
patrol(s, waypoints, deltaTime) ==
    LET target == waypoints[(s.currentWaypoint % Len(waypoints)) + 1]
        s1 == moveTowards(s, target[1] * AScale, target[2] * AScale, deltaTime)
        dx == target[1] * AScale - s1.x
        dy == target[2] * AScale - s1.y
    IN  IF dx * dx + dy * dy < arrivalRadiusSq * AScale * AScale
        THEN [s1 EXCEPT !.currentWaypoint = (s1.currentWaypoint + 1) % 4]
        ELSE s1

(* AIEnemy::attack has no effect on the enemy; the call is logged *)
attack(s) == [s EXCEPT !.log = Append(s.log, <<"attack">>)]

(* AIEnemy::takeDamage *)
takeDamage(s, damage) == [s EXCEPT !.health = Max(0, s.health - damage)]

(* execute of the six behaviours of the controller *)
PatrolExecute(s, deltaTime) == patrol(s, controllerWaypoints, deltaTime)

(* a Chase that stays where it is *)
ChaseExecuteStay(s, deltaTime) == s

ChaseExecute(s, deltaTime) ==
    IF s.hasTarget THEN moveTowards(s, s.targetX, s.targetY, deltaTime) ELSE s

(* an Attack that strikes in every execute *)
AttackExecuteNoCooldown(s, deltaTime) == [attack(s) EXCEPT !.lastAttackTime = 0]

AttackExecute(s, deltaTime) ==
    LET s1 == [s EXCEPT !.lastAttackTime = s.lastAttackTime + deltaTime]
    IN  IF s1.lastAttackTime >= attackCooldown
        THEN [attack(s1) EXCEPT !.lastAttackTime = 0]
        ELSE s1

FleeExecute(s, deltaTime) ==
    IF s.hasTarget THEN flee(s, s.targetX, s.targetY, deltaTime) ELSE s

DefendExecute(s, deltaTime) ==
    LET s1 == [s EXCEPT !.defendTimer = s.defendTimer + deltaTime,
                        !.speed = s.speed \div 2,
                        !.exact = s.exact /\ s.speed % 2 = 0]
    IN  IF s1.defendTimer >= defendDuration
        THEN [s1 EXCEPT !.defendTimer = 0]
        ELSE s1

BerserkExecute(s, deltaTime) ==
    LET s1 == [s EXCEPT !.speed = (s.speed * 3) \div 2,
                        !.exact = s.exact /\ (s.speed * 3) % 2 = 0]
    IN  IF s1.hasTarget
        THEN LET s2 == moveTowards(s1, s1.targetX, s1.targetY, deltaTime)
             IN  IF DistSqToTarget(s2) <= RangeSq THEN attack(s2) ELSE s2
        ELSE s1

EasyAIExecute(s, deltaTime) == patrol(s, easyWaypoints, deltaTime \div 2)

RECURSIVE ctlUpdate(_, _, _)

(* HardAI::execute calls back into the controller *)
HardAIExecute(s, deltaTime, depth) == ctlUpdate(s, (deltaTime * 3) \div 2, depth + 1)

execute(s, name, deltaTime, depth) ==
    LET s1 == [s EXCEPT !.log = Append(s.log, <<"execute", depth, name, deltaTime>>)]
    IN  CASE name = "Patrol"  -> PatrolExecute(s1, deltaTime)
          [] name = "Chase"   -> ChaseExecute(s1, deltaTime)
          [] name = "Attack"  -> AttackExecute(s1, deltaTime)
          [] name = "Flee"    -> FleeExecute(s1, deltaTime)
          [] name = "Defend"  -> DefendExecute(s1, deltaTime)
          [] name = "Berserk" -> BerserkExecute(s1, deltaTime)
          [] name = "EasyAI"  -> EasyAIExecute(s1, deltaTime)
          [] name = "HardAI"  -> HardAIExecute(s1, deltaTime, depth)
          [] OTHER -> s1

(* an update that runs execute without asking canExecute *)
enemyUpdateAlways(s, deltaTime, depth) ==
    execute([s EXCEPT !.log = Append(s.log, <<"enemyUpdate", depth, s.behavior>>)],
            s.behavior, deltaTime, depth)

(* AIEnemy::update *)
enemyUpdate(s, deltaTime, depth) ==
    LET s1 == [s EXCEPT !.log = Append(s.log, <<"enemyUpdate", depth, s.behavior>>)]
    IN  IF canExecute(s1, s1.behavior)
        THEN execute(s1, s1.behavior, deltaTime, depth)
        ELSE s1

(* The loop of selectBestBehavior from the i-th available behaviour on.  A  *)
(* candidate that can execute and is not the current one is installed, and  *)
(* the loop left, in the five branches the code has; for "Patrol" there is  *)
(* no branch and the loop goes on.                                          *)
RECURSIVE selectFrom(_, _)
selectFrom(s, i) ==
    IF i > Len(availableBehaviors) THEN s
    ELSE LET newBehavior == availableBehaviors[i]
         IN  IF /\ canExecute(s, newBehavior)
                /\ s.behavior # newBehavior
                /\ newBehavior \in {"Flee", "Berserk", "Attack", "Defend", "Chase"}
             THEN setBehavior(s, newBehavior)
             ELSE selectFrom(s, i + 1)

(* StrategyAIController::selectBestBehavior *)
selectBestBehavior(s) ==
    selectFrom([s EXCEPT !.log = Append(s.log, <<"select", s.behavior>>)], 1)

(* StrategyAIController::update.  A chain of nested calls longer than       *)
(* MaxDepth never ends (nothing in it changes what a selection sees): the   *)
(* process dies of stack exhaustion.                                        *)
ctlUpdate(s, deltaTime, depth) ==
    IF depth > MaxDepth THEN [s EXCEPT !.crashed = TRUE]
    ELSE LET s1 == [s EXCEPT !.timeSinceLastUpdate = s.timeSinceLastUpdate + deltaTime,
                             !.log = Append(s.log, <<"update", depth, deltaTime>>)]
             s2 == IF s1.timeSinceLastUpdate >= behaviorUpdateInterval
                   THEN [selectBestBehavior(s1) EXCEPT !.timeSinceLastUpdate = 0]
                   ELSE s1
         IN  enemyUpdate(s2, deltaTime, depth)

(* a forceBehavior that installs a behaviour only if it can execute *)
forceBehaviorIfEligible(s, behaviorName) ==
    IF behaviorName \in BehaviorNames /\ canExecute(s, behaviorName)
    THEN setBehavior(s, behaviorName)
    ELSE s

(* StrategyAIController::forceBehavior *)
forceBehavior(s, behaviorName) ==
    IF behaviorName \in BehaviorNames THEN setBehavior(s, behaviorName) ELSE s

(* AIEnemy::setTarget, clearTarget (through the controller) *)
setTarget(s, tX, tY) == [s EXCEPT !.targetX = tX, !.targetY = tY, !.hasTarget = TRUE]
clearTarget(s) == [s EXCEPT !.hasTarget = FALSE]

(* AIEnemy's constructor, StrategyAIController's constructor with           *)
(* initializeBehaviors, and the branch of BattleManager::createEnemies      *)
NewController(difficulty) ==
    [x |-> 0, y |-> 0, health |-> maxHealth, speed |-> initialSpeed * AScale,
     hasTarget |-> FALSE, targetX |-> 0, targetY |-> 0,
     behavior |-> CASE difficulty = "easy" -> "EasyAI"
                    [] difficulty = "hard" -> "HardAI"
                    [] OTHER -> "Patrol",
     lastAttackTime |-> 0, defendTimer |-> 0,
     timeSinceLastUpdate |-> 0, currentWaypoint |-> 0, updates |-> 0,
     crashed |-> FALSE, exact |-> TRUE, log |-> <<>>]

InBoundsAI(s) ==
    /\ s.exact
    /\ s.x <= MaxPos * AScale /\ -s.x <= MaxPos * AScale
    /\ s.y <= MaxPos * AScale /\ -s.y <= MaxPos * AScale
    /\ s.speed <= MaxSpeed * AScale

(* What is left of the process after stack exhaustion *)
Crashed(s) == [NewController("normal") EXCEPT !.crashed = TRUE, !.behavior = "none"]

---------------------------------------------------------------------------
(* The driver's calls on the character: specification Spec *)

Init ==
    /\ ch = Begin(NewCharacter)
    /\ ai = NewController("normal")
    /\ last = [op |-> "new", arg |-> 0, log |-> NewCharacter.log]

HandleInput ==
    \E code \in InputCodes :
        LET r == handleInput(Begin(ch), code)
        IN  /\ InBounds(r)
            /\ ch' = Begin(r)
            /\ last' = [op |-> "handleInput", arg |-> code, log |-> r.log]
            /\ UNCHANGED ai

Update ==
    \E dt \in DtSet :
        LET r == update(Begin(ch), dt)
        IN  /\ InBounds(r)
            /\ ch' = Begin(r)
            /\ last' = [op |-> "update", arg |-> dt, log |-> r.log]
            /\ UNCHANGED ai

SetState ==
    \E name \in NameArgs :
        LET r == setState(Begin(ch), name)
        IN  /\ ch' = Begin(r)
            /\ last' = [op |-> "setState", arg |-> name, log |-> r.log]
            /\ UNCHANGED ai

Next == HandleInput \/ Update \/ SetState

Spec == Init /\ [][Next]_vars

---------------------------------------------------------------------------
(* The driver's calls on the controller and its enemy: specification SpecAI *)

InitAI ==
    /\ ch = Begin(NewCharacter)
    /\ \E difficulty \in Difficulties : ai = NewController(difficulty)
    /\ last = [op |-> "new", arg |-> 0, log |-> <<>>]

AIUpdate ==
    \E dt \in DtSetAI :
        LET r == ctlUpdate(Begin(ai), dt, 0)
        IN  /\ ~ai.crashed
            /\ ai.updates < MaxUpdates
            /\ r.crashed \/ InBoundsAI(r)
            /\ ai' = IF r.crashed THEN Crashed(r)
                     ELSE [Begin(r) EXCEPT !.updates = ai.updates + 1]
            /\ last' = [op |-> "update", arg |-> dt, log |-> r.log]
            /\ UNCHANGED ch

AISelect ==
    LET r == selectBestBehavior(Begin(ai))
    IN  /\ ~ai.crashed
        /\ ai' = Begin(r)
        /\ last' = [op |-> "selectBestBehavior", arg |-> 0, log |-> r.log]
        /\ UNCHANGED ch

AIForce ==
    \E name \in ForceArgs :
        LET r == forceBehavior(Begin(ai), name)
        IN  /\ ~ai.crashed
            /\ ai' = Begin(r)
            /\ last' = [op |-> "forceBehavior", arg |-> name, log |-> r.log]
            /\ UNCHANGED ch

AISetTarget ==
    \E t \in TargetSet :
        /\ ~ai.crashed
        /\ ai' = setTarget(ai, t[1] * AScale, t[2] * AScale)
        /\ last' = [op |-> "setTarget", arg |-> t, log |-> <<>>]
        /\ UNCHANGED ch

AIClearTarget ==
    /\ ~ai.crashed
    /\ ai' = clearTarget(ai)
    /\ last' = [op |-> "clearTarget", arg |-> 0, log |-> <<>>]
    /\ UNCHANGED ch

AITakeDamage ==
    \E damage \in DamageSet :
        /\ ~ai.crashed
        /\ ai' = takeDamage(ai, damage)
        /\ last' = [op |-> "takeDamage", arg |-> damage, log |-> <<>>]
        /\ UNCHANGED ch

NextAI == AIUpdate \/ AISelect \/ AIForce \/ AISetTarget \/ AIClearTarget \/ AITakeDamage

SpecAI == InitAI /\ [][NextAI]_vars

---------------------------------------------------------------------------
(* canExecute of the six behaviours asked of an enemy of any health, with    *)
(* and without a target, the target at, just beyond and far beyond the       *)
(* attack range: specification SpecEligible                                  *)

(* target positions in 1/AScale units: at distance 30, 30 (off the axes),    *)
(* 30.25 and 100 of the enemy at the origin                                  *)
EligTargets == {<<120, 0>>, <<72, 96>>, <<121, 0>>, <<400, 0>>}

InitEligible ==
    /\ ch = Begin(NewCharacter)
    /\ \E health \in 0..maxHealth, t \in EligTargets, hasTarget \in BOOLEAN :
           ai = [NewController("normal") EXCEPT !.health = health,
                                                !.hasTarget = hasTarget,
                                                !.targetX = t[1], !.targetY = t[2]]
    /\ last = [op |-> "new", arg |-> 0, log |-> <<>>]

AICanExecute ==
    \E name \in BehaviorNames :
        /\ last' = [op |-> "canExecute", arg |-> name, log |-> <<canExecute(ai, name)>>]
        /\ UNCHANGED <<ch, ai>>

NextEligible == AICanExecute

SpecEligible == InitEligible /\ [][NextEligible]_vars

---------------------------------------------------------------------------
(* Idle regeneration alone: update(dt) repeated with one dt and no input,    *)
(* from Idle with any mana below the regeneration cap: specification        *)
(* SpecRegen.  The dt of the run is kept in last.arg.  The driver calls      *)
(* update again and again, hence the weak fairness.                          *)

(* 0.016 (the cadence of the driver), 0.125, 0.2 and 1.0 *)
RegenDts == {16, 125, 200, 1000}

InitRegen ==
    /\ \E mana \in 0..(idleManaCap - 1) :
           ch = [Begin(NewCharacter) EXCEPT !.mana = mana]
    /\ ai = NewController("normal")
    /\ \E dt \in RegenDts : last = [op |-> "new", arg |-> dt, log |-> <<>>]

RegenUpdate ==
    LET r == update(Begin(ch), last.arg)
    IN  /\ ch' = Begin(r)
        /\ last' = [op |-> "update", arg |-> last.arg, log |-> r.log]
        /\ UNCHANGED ai

NextRegen == RegenUpdate

SpecRegen == InitRegen /\ [][NextRegen]_vars /\ WF_vars(NextRegen)

---------------------------------------------------------------------------
(* PlayerController::simulateGameplay on a fresh character: five inputs,    *)
(* each followed by an update: specification SpecScript.  The input codes    *)
(* are those of the script; the five durations are drawn from the values     *)
(* the script uses, the script's own choice being simulateDts.  last.arg     *)
(* holds the durations of the run and the number of calls made so far.       *)

simulateInputs == <<68, 32, 74, 75, 0>>

(* 0.1, 0.5, 0.6, 1.1, 0.1 *)
simulateDts == <<100, 500, 600, 1100, 100>>

ScriptDtSet == {100, 500, 600, 1100}

InitScript ==
    /\ ch = Begin(NewCharacter)
    /\ ai = NewController("normal")
    /\ \E dts \in [1..Len(simulateInputs) -> ScriptDtSet] :
           last = [op |-> "new", arg |-> [dts |-> dts, pc |-> 0], log |-> <<>>]

ScriptInput ==
    /\ last.arg.pc < 2 * Len(simulateInputs)
    /\ last.arg.pc % 2 = 0
    /\ LET r == handleInput(Begin(ch), simulateInputs[(last.arg.pc \div 2) + 1])
       IN  /\ ch' = Begin(r)
           /\ last' = [op |-> "handleInput",
                       arg |-> [last.arg EXCEPT !.pc = last.arg.pc + 1],
                       log |-> r.log]
    /\ UNCHANGED ai

ScriptUpdate ==
    /\ last.arg.pc % 2 = 1
    /\ LET r == update(Begin(ch), last.arg.dts[(last.arg.pc + 1) \div 2])
       IN  /\ ch' = Begin(r)
           /\ last' = [op |-> "update",
                       arg |-> [last.arg EXCEPT !.pc = last.arg.pc + 1],
                       log |-> r.log]
    /\ UNCHANGED ai

NextScript == ScriptInput \/ ScriptUpdate

SpecScript == InitScript /\ [][NextScript]_vars

---------------------------------------------------------------------------
(* selectBestBehavior called again and again on an enemy whose health,      *)
(* target and position stay as they are, from any health, with and without   *)
(* a target and under any active behaviour: specification SpecSelect.  The   *)
(* caller keeps calling, hence the weak fairness.                            *)

InitSelect ==
    /\ ch = Begin(NewCharacter)
    /\ \E health \in 0..maxHealth, t \in EligTargets, hasTarget \in BOOLEAN,
          b \in BehaviorNames \cup {"EasyAI", "HardAI"} :
           ai = [NewController("normal") EXCEPT !.health = health,
                                                !.hasTarget = hasTarget,
                                                !.targetX = t[1], !.targetY = t[2],
                                                !.behavior = b]
    /\ last = [op |-> "new", arg |-> 0, log |-> <<>>]

SelectAgain ==
    LET r == selectBestBehavior(Begin(ai))
    IN  /\ ai' = Begin(r)
        /\ last' = [op |-> "selectBestBehavior", arg |-> 0, log |-> r.log]
        /\ UNCHANGED ch

NextSelect == SelectAgain

SpecSelect == InitSelect /\ [][NextSelect]_vars /\ WF_vars(NextSelect)

---------------------------------------------------------------------------
(* Inputs of any kind between updates of one fixed deltaTime, on a fresh    *)
(* character: specification SpecLanding.  last.arg holds the deltaTime of    *)
(* the run and the code of the last input.  The driver calls update again    *)
(* and again, hence the weak fairness on LandingUpdate; nothing is assumed   *)
(* of the inputs.  An input is left out if it starts an attack so high that  *)
(* the jump resumed after it could pass MaxHeight (this keeps the states     *)
(* finite without ever holding an update back).                              *)

(* the apex of one jump from the ground: jumpForce^2 / (2 * -gravity) = 90 *)
jumpApex == (jumpForce * jumpForce) \div (2 * (0 - gravity))

MaxHeight == 120

LandingDts == {125, 500}

InitLanding ==
    /\ ch = Begin(NewCharacter)
    /\ ai = NewController("normal")
    /\ \E dt \in LandingDts :
           last = [op |-> "new", arg |-> [dt |-> dt, code |-> 0], log |-> <<>>]

LandingInput ==
    \E code \in InputCodes :
        LET r == handleInput(Begin(ch), code)
        IN  /\ -r.x <= MaxX * PosScale /\ r.x <= MaxX * PosScale
            /\ (r.state = "attacking" /\ ~r.grounded)
               => r.y + jumpApex * PosScale <= MaxHeight * PosScale
            /\ ch' = Begin(r)
            /\ last' = [op |-> "handleInput",
                        arg |-> [last.arg EXCEPT !.code = code], log |-> r.log]
            /\ UNCHANGED ai

LandingUpdate ==
    LET r == update(Begin(ch), last.arg.dt)
    IN  /\ ch' = Begin(r)
        /\ last' = [op |-> "update", arg |-> last.arg, log |-> r.log]
        /\ UNCHANGED ai

NextLanding == LandingInput \/ LandingUpdate

SpecLanding == InitLanding /\ [][NextLanding]_vars /\ WF_vars(LandingUpdate)

---------------------------------------------------------------------------
(* Two battles side by side, each a BattleManager with two normal enemies,  *)
(* given the same updateBattle calls: specification SpecPair.  In both the   *)
(* first enemy starts at the origin; the second enemy starts at a place and  *)
(* with a health (full, or 0 after takeDamage) that may differ between the   *)
(* two battles.  ai holds the two battles, a and b, each a pair of enemies.  *)
(* The waypoint index of AIEnemy::patrol is one static for the process a     *)
(* battle runs in: within a battle it is handed from each enemy's update to  *)
(* the next.                                                                 *)

(* where the second enemy starts on the x axis; createEnemies puts it at 50 *)
PairStarts == {0, 25, 50, 75, 100}

(* the second enemy is alive and patrols, or dead and does nothing *)
PairHealths == {0, maxHealth}

(* BattleManager::createEnemies(2) with the second enemy at (x2, 0) and of   *)
(* health h2                                                                 *)
createEnemies(x2, h2) ==
    << NewController("normal"),
       [NewController("normal") EXCEPT !.x = x2 * AScale, !.health = h2] >>

(* BattleManager::updateBattle: the controllers in the order of creation *)
updateBattle(w, deltaTime) ==
    LET r1 == ctlUpdate(Begin(w[1]), deltaTime, 0)
        r2 == ctlUpdate([Begin(w[2]) EXCEPT !.currentWaypoint = r1.currentWaypoint],
                        deltaTime, 0)
    IN  << [Begin(r1) EXCEPT !.currentWaypoint = r2.currentWaypoint,
                             !.updates = w[1].updates + 1],
           [Begin(r2) EXCEPT !.updates = w[2].updates + 1] >>

InitPair ==
    /\ ch = Begin(NewCharacter)
    /\ \E xa \in PairStarts, xb \in PairStarts, ha \in PairHealths, hb \in PairHealths :
           ai = [a |-> createEnemies(xa, ha), b |-> createEnemies(xb, hb)]
    /\ last = [op |-> "new", arg |-> 0, log |-> <<>>]

PairUpdate ==
    \E dt \in DtSetAI :
        LET ra == updateBattle(ai.a, dt)
            rb == updateBattle(ai.b, dt)
        IN  /\ ai.a[1].updates < MaxUpdates
            /\ \A e \in {ra[1], ra[2], rb[1], rb[2]} : InBoundsAI(e)
            /\ ai' = [a |-> ra, b |-> rb]
            /\ last' = [op |-> "updateBattle", arg |-> dt, log |-> <<>>]
            /\ UNCHANGED ch

NextPair == PairUpdate

SpecPair == InitPair /\ [][NextPair]_vars

---------------------------------------------------------------------------
(* A normal enemy at full health, in Patrol at the origin, with a target    *)
(* that stays where it is, farther away than the attack range, and           *)
(* StrategyAIController::update called again and again with one deltaTime    *)
(* for which speed * deltaTime is below the attack range: specification      *)
(* SpecPursuit.  last.arg holds the deltaTime of the run.  The targets lie   *)
(* on the x axis, on which Patrol moves before the first selection, so that  *)
(* every distance is exact.  The caller keeps calling, hence the weak        *)
(* fairness.                                                                 *)

(* 0.125, 0.25 and 0.5: steps of 6.25, 12.5 and 25 *)
PursuitDts == {125, 250, 500}

PursuitTargets == {-100, -40, 31, 40, 60, 100}

InitPursuit ==
    /\ ch = Begin(NewCharacter)
    /\ \E tX \in PursuitTargets :
           ai = setTarget(NewController("normal"), tX * AScale, 0)
    /\ \E dt \in PursuitDts : last = [op |-> "new", arg |-> dt, log |-> <<>>]

PursuitUpdate ==
    LET r == ctlUpdate(Begin(ai), last.arg, 0)
    IN  /\ ai' = Begin(r)
        /\ last' = [op |-> "update", arg |-> last.arg, log |-> r.log]
        /\ UNCHANGED ch

NextPursuit == PursuitUpdate

SpecPursuit == InitPursuit /\ [][NextPursuit]_vars /\ WF_vars(NextPursuit)

---------------------------------------------------------------------------
(* Helpers of the properties *)

(* The pairs of the transition table of the specification *)
TransitionTable ==
    { <<"idle", "walking">>, <<"idle", "jumping">>, <<"idle", "attacking">>,
      <<"idle", "casting">>,
      <<"walking", "idle">>, <<"walking", "jumping">>, <<"walking", "attacking">>,
      <<"jumping", "idle">>, <<"jumping", "attacking">>,
      <<"attacking", "idle">>, <<"attacking", "jumping">>,
      <<"casting", "idle">>, <<"casting", "walking">> }

IsSwap(e) == e[1] = "swap"

(* The changes of the active state a call made, in order, as <<"swap", from, to>> *)
Swaps(log) == SelectSeq(log, IsSwap)

(* The changes sw lead from state from to state to, each starting where the *)
(* one before ended                                                          *)
Chain(from, sw, to) ==
    IF sw = <<>> THEN to = from
    ELSE /\ sw[1][2] = from
         /\ \A i \in 1..(Len(sw) - 1) : sw[i + 1][2] = sw[i][3]
         /\ sw[Len(sw)][3] = to

(* The events of a log whose first field is kind and whose second is depth d *)
EventsAt(log, kind, d) == {i \in 1..Len(log) : log[i][1] = kind /\ log[i][2] = d}

Events(log, kind) == {i \in 1..Len(log) : log[i][1] = kind}

---------------------------------------------------------------------------
(* Properties of the character state machine, specification Spec *)

(* C1: in every call of handleInput, update and setState the changes of the  *)
(* active state form a chain from the state before the call to the state     *)
(* after it, and each change is a pair of the transition table; no other     *)
(* pair, and no change of a state to itself, occurs.                         *)
C1_TransitionsInTable ==
    [][ LET sw == Swaps(last'.log)
        IN  /\ Chain(ch.state, sw, ch'.state)
            /\ \A i \in 1..Len(sw) : <<sw[i][2], sw[i][3]>> \in TransitionTable ]_vars

(* C1 witness: a setState call made two changes, Idle -> Casting -> Idle *)
C1_Witness ==
    /\ last.op = "setState"
    /\ Swaps(last.log) = << <<"swap", "idle", "casting">>, <<"swap", "casting", "idle">> >>

(* C2: setState with a registered name that the table does not allow from    *)
(* the current state (the state's own name included) changes nothing: the    *)
(* active state, the timers, every attribute and the registry stay, no hook  *)
(* runs; the call can be repeated with the same result.                      *)
C2_RejectedSetStateIsNoOp ==
    [][ ( /\ last'.op = "setState"
          /\ last'.arg \in StateNames
          /\ <<ch.state, last'.arg>> \notin TransitionTable )
        => (ch' = ch /\ last'.log = <<>>) ]_vars

(* C2 witness: a rejected setState during an attack whose timer has run *)
C2_Witness ==
    /\ last.op = "setState"
    /\ last.arg \in {"walking", "casting", "attacking"}
    /\ ch.state = "attacking"
    /\ ch.attackTimer > 0
    /\ last.log = <<>>

(* C3: setState with a name that is not registered changes nothing and ends  *)
(* normally, whatever the state.                                             *)
C3_UnknownNameIsNoOp ==
    [][ (last'.op = "setState" /\ last'.arg \notin StateNames)
        => (ch' = ch /\ ch'.state \in StateNames /\ last'.log = <<>>) ]_vars

(* C3 witness: setState("flying") in the middle of a cast *)
C3_Witness ==
    /\ last.op = "setState"
    /\ last.arg = "flying"
    /\ ch.state = "casting"
    /\ ch.castTimer > 0

(* C10: an update in Attacking keeps the state Attacking, with the time      *)
(* accumulated, while the accumulated time is below attackDuration; the      *)
(* update that brings it to attackDuration or more ends in Idle if the       *)
(* character is grounded and in Jumping if not; no other state follows.      *)
C10_AttackEnds ==
    [][ (last'.op = "update" /\ ch.state = "attacking")
        => LET t == ch.attackTimer + last'.arg
           IN  IF 2 * t < TimeScale
               THEN ch'.state = "attacking" /\ ch'.attackTimer = t
               ELSE ch'.state = (IF ch.grounded THEN "idle" ELSE "jumping") ]_vars

(* C10 witness: an update ended an airborne attack in Jumping *)
C10_Witness ==
    /\ last.op = "update"
    /\ ch.state = "jumping"
    /\ Swaps(last.log) = << <<"swap", "attacking", "jumping">> >>

(* C11: an update in Jumping sets v := v + g*dt and then y := y + v*dt.  If  *)
(* the new y is above 0 nothing else changes: the state stays Jumping, not   *)
(* grounded.  If it is not, the call ends with y = 0, jumpVelocity = 0,      *)
(* grounded, state Idle, after the one change Jumping -> Idle; y is never    *)
(* negative after the call.  Every call that ends its last change in         *)
(* Jumping leaves jumpVelocity = jumpForce and grounded = false.             *)
C11_JumpIntegration ==
    [][ /\ (last'.op = "update" /\ ch.state = "jumping")
           => LET v == ch.jumpVelocity + (gravity * VelScale * last'.arg) \div TimeScale
                  y == ch.y + v * last'.arg
              IN  IF y > 0
                  THEN /\ ch' = [ch EXCEPT !.jumpVelocity = v, !.y = y]
                       /\ ch'.state = "jumping" /\ ~ch'.grounded
                       /\ last'.log = <<>>
                  ELSE /\ ch'.y = 0 /\ ch'.jumpVelocity = 0 /\ ch'.grounded
                       /\ ch'.state = "idle"
                       /\ Swaps(last'.log) = << <<"swap", "jumping", "idle">> >>
        /\ ch'.y >= 0
        /\ LET sw == Swaps(last'.log)
           IN  (sw # <<>> /\ sw[Len(sw)][3] = "jumping")
               => (ch'.jumpVelocity = jumpForce * VelScale /\ ~ch'.grounded) ]_vars

(* C11 witness: an update landed a jump that had been falling from a height *)
C11_Witness ==
    /\ last.op = "update"
    /\ last.arg = 125
    /\ Swaps(last.log) = << <<"swap", "jumping", "idle">> >>
    /\ ch.y = 0 /\ ch.grounded /\ ch.jumpVelocity = 0

(* C12: the mana cost is taken once, and only by the update that completes   *)
(* the cast.  In Casting, the update that brings the cast time to            *)
(* castDuration lowers mana by exactly manaCost and ends in Idle; every      *)
(* other update and every handleInput in Casting leaves mana as it is, and   *)
(* input 65 or 68 ends in Walking; a call that enters Casting leaves mana as *)
(* it is.  So an interrupted cast leaves with the mana it was entered with.  *)
C12_CastCostsOnCompletion ==
    [][ /\ (last'.op = "update" /\ ch.state = "casting")
           => IF ch.castTimer + last'.arg >= castDuration
              THEN /\ ch'.mana = ch.mana - manaCost
                   /\ ch'.state = "idle"
              ELSE /\ ch'.mana = ch.mana
                   /\ ch'.state = "casting"
                   /\ ch'.castTimer = ch.castTimer + last'.arg
        /\ (last'.op = "handleInput" /\ ch.state = "casting")
           => /\ ch'.mana = ch.mana
              /\ ch'.state = (IF last'.arg \in {65, 68} THEN "walking" ELSE "casting")
        /\ (ch.state # "casting" /\ \E i \in 1..Len(last'.log) :
                                        last'.log[i] = <<"enter", "casting">>)
           => ch'.mana = ch.mana ]_vars

(* C12 witness: a cast entered with 50 mana was completed by an update *)
C12_Witness ==
    /\ last.op = "update"
    /\ Swaps(last.log) = << <<"swap", "casting", "idle">> >>
    /\ ch.mana = 40

(* C13: setState("casting") in Idle with mana below manaCost returns with    *)
(* the state Idle, the mana as it was and no cast time accumulated; the      *)
(* registry holds an instance of each of the five states, and the states     *)
(* Idle allows can be entered from the state the call leaves.                *)
C13_CastWithoutManaReverts ==
    [][ ( /\ last'.op = "setState" /\ last'.arg = "casting"
          /\ ch.state = "idle" /\ ch.mana < manaCost )
        => /\ ch'.state = "idle"
           /\ ch'.mana = ch.mana
           /\ ch'.castTimer = 0
           /\ ch'.reg = StateNames
           /\ \A n \in {"walking", "jumping", "attacking"} : setState(ch', n).state = n
           /\ Swaps(last'.log) = << <<"swap", "idle", "casting">>,
                                    <<"swap", "casting", "idle">> >> ]_vars

(* C13 witness: setState("casting") was called with 5 mana and came back in Idle *)
C13_Witness ==
    /\ last.op = "setState" /\ last.arg = "casting"
    /\ ch.mana = 5
    /\ ch.state = "idle"
    /\ Len(Swaps(last.log)) = 2

(* The input codes the handler of a state has a case for *)
MatchedCodes(state) ==
    CASE state = "idle"    -> {32, 65, 68, 74, 75}
      [] state = "walking" -> {0, 32, 65, 68, 74}
      [] state = "jumping" -> {65, 68, 74}
      [] state = "casting" -> {65, 68}
      [] OTHER             -> {}

(* C14: handleInput with a code the handler of the active state has no case  *)
(* for leaves the active state, its timers and every attribute as they are;  *)
(* no hook runs.                                                             *)
C14_UnmatchedInputIsNoOp ==
    [][ (last'.op = "handleInput" /\ last'.arg \notin MatchedCodes(ch.state))
        => (ch' = ch /\ last'.log = <<>>) ]_vars

(* C14 witness: the jump code arrived in mid-air, above the ground *)
C14_Witness ==
    /\ last.op = "handleInput"
    /\ last.arg = 32
    /\ ch.state = "jumping"
    /\ ch.y > 0

C16_OneActiveState ==
    /\ ch.state \in StateNames
    /\ last.op = "new" => ch.state = "idle"

(* C16 witness: Casting is active for the second time *)
C16_Witness ==
    /\ last.op = "handleInput"
    /\ ch.state = "casting"
    /\ ch.mana = 40

---------------------------------------------------------------------------
(* Properties of the behaviour selection, specification SpecAI *)

(* The behaviour the stated rule selects: the first of Flee, Berserk,        *)
(* Attack, Defend, Chase, Patrol that can execute and is not the current     *)
(* one; the current one if there is none.                                    *)
StatedSelect(s) ==
    LET cand == {i \in 1..Len(statedPriority) :
                    /\ canExecute(s, statedPriority[i])
                    /\ statedPriority[i] # s.behavior}
    IN  IF cand = {} THEN s.behavior
        ELSE statedPriority[CHOOSE i \in cand : \A j \in cand : i <= j]

Rank(name) == CHOOSE i \in 1..Len(statedPriority) : statedPriority[i] = name

(* A behaviour of higher stated priority than the current one can execute *)
HigherEligible(s) ==
    \E i \in 1..(Rank(s.behavior) - 1) : canExecute(s, statedPriority[i])

(* C4 as stated: after selectBestBehavior the active behaviour is the one    *)
(* the stated priority rule yields.                                          *)
C4_SelectFollowsStatedPriority ==
    [][ (last'.op = "selectBestBehavior" /\ ai.behavior \in BehaviorNames)
        => ai'.behavior = StatedSelect(ai) ]_vars

(* C5 as stated: at health ratio 0.15 with Patrol active, one                *)
(* selectBestBehavior makes Flee active, with or without a target.           *)
C5_LowHealthPatrolSelectsFlee ==
    [][ ( /\ last'.op = "selectBestBehavior"
          /\ 100 * ai.health = 15 * maxHealth
          /\ ai.behavior = "Patrol" )
        => ai'.behavior = "Flee" ]_vars

(* C6 as stated: an active behaviour that can execute, with no behaviour of  *)
(* higher priority able to execute, is left in place by selectBestBehavior,  *)
(* its timers not reset.                                                     *)
C6_SelectionStable ==
    [][ ( /\ last'.op = "selectBestBehavior"
          /\ ai.behavior \in BehaviorNames
          /\ canExecute(ai, ai.behavior)
          /\ ~HigherEligible(ai) )
        => ( /\ ai'.behavior = ai.behavior
             /\ ai'.lastAttackTime = ai.lastAttackTime
             /\ ai'.defendTimer = ai.defendTimer
             /\ Events(last'.log, "switch") = {} ) ]_vars

(* C7 as stated: no call other than forceBehavior makes Berserk active. *)
C7_BerserkNeverSelected ==
    [][ (last'.op # "forceBehavior" /\ ai'.behavior = "Berserk")
        => ai.behavior = "Berserk" ]_vars

(* C8 as stated: an update that returns has selected exactly when the        *)
(* accumulated time reached the interval, and then reset it; the             *)
(* accumulator ends below the interval, at most one selection happened, and  *)
(* below the interval the active behaviour is the one before the call.       *)
C8_SelectionOnlyAtInterval ==
    [][ (last'.op = "update" /\ ~ai'.crashed)
        => LET acc == ai.timeSinceLastUpdate + last'.arg
               nsel == Cardinality(Events(last'.log, "select"))
           IN  /\ nsel = (IF acc >= behaviorUpdateInterval THEN 1 ELSE 0)
               /\ ai'.timeSinceLastUpdate =
                      (IF acc >= behaviorUpdateInterval THEN 0 ELSE acc)
               /\ ai'.timeSinceLastUpdate < behaviorUpdateInterval
               /\ (acc < behaviorUpdateInterval => ai'.behavior = ai.behavior) ]_vars

(* C9 as stated: an update that returns ran the execute of the behaviour     *)
(* that is active after the selection step exactly once, with the update's   *)
(* deltaTime.                                                                *)
C9_ExecuteAlwaysRuns ==
    [][ (last'.op = "update" /\ ~ai'.crashed)
        => \E i \in 1..Len(last'.log) :
              /\ EventsAt(last'.log, "execute", 0) = {i}
              /\ last'.log[i][4] = last'.arg
              /\ \A j \in Events(last'.log, "select") : j < i ]_vars

(* One frame of StrategyAIController::update in a log: the "update" event    *)
(* of depth d at index i, then the selection step if any, then one call of   *)
(* AIEnemy::update, which runs execute of the active behaviour b with the    *)
(* frame's deltaTime once if b can execute for enemy s and not otherwise.    *)
FrameDelegates(log, i, s) ==
    LET d == log[i][2]
        deltaTime == log[i][3]
        eu == EventsAt(log, "enemyUpdate", d)
        ex == EventsAt(log, "execute", d)
    IN  \E j \in (i + 1)..Len(log) :
            /\ eu = {j}
            /\ \A k \in (i + 1)..(j - 1) : log[k][1] \in {"select", "switch"}
            /\ Cardinality({k \in (i + 1)..(j - 1) : log[k][1] = "select"}) <= 1
            /\ IF canExecute(s, log[j][3])
               THEN /\ ex = {j + 1}
                    /\ log[j + 1] = <<"execute", d, log[j][3], deltaTime>>
               ELSE ex = {}

(* C9 amended: every update that returns calls AIEnemy::update once, after   *)
(* the selection step if there is one, and that call runs the execute of the *)
(* active behaviour once, with the update's deltaTime, if the behaviour's    *)
(* canExecute holds, and not at all if it does not.  The same holds of each  *)
(* nested update HardAI starts.                                              *)
C9_ExecuteIfEligible ==
    [][ last'.op = "update"
        => /\ last'.log[1] = <<"update", 0, last'.arg>>
           /\ \A i \in Events(last'.log, "update") : FrameDelegates(last'.log, i, ai) ]_vars

(* C9 witness: an update of a living enemy that ran no execute at all *)
C9_Witness ==
    /\ last.op = "update"
    /\ ~ai.crashed
    /\ ai.health > 0
    /\ Events(last.log, "enemyUpdate") # {}
    /\ Events(last.log, "execute") = {}

(* The eligibility predicates as stated, on the health, the presence of a    *)
(* target and the distance d to it (d*d compared with the square of the      *)
(* range)                                                                    *)
StatedEligible(s, name) ==
    LET hp == s.health
        alive == hp > 0
        near == DistSqToTarget(s) <= (attackRange * AScale) * (attackRange * AScale)
    IN  CASE name = "Flee"    -> alive /\ 100 * hp < 30 * maxHealth
          [] name = "Berserk" -> alive /\ 100 * hp < 20 * maxHealth
          [] name = "Attack"  -> alive /\ s.hasTarget /\ near
          [] name = "Defend"  -> alive /\ 30 * maxHealth <= 100 * hp
                                       /\ 100 * hp <= 60 * maxHealth
          [] name = "Chase"   -> alive /\ s.hasTarget /\ ~near
          [] name = "Patrol"  -> alive

(* C17: for every health in 0..maxHealth, with and without a target and at   *)
(* every distance, canExecute of each of the six behaviours is its stated    *)
(* predicate; none can execute at health 0, and Attack and Chase cannot      *)
(* without a target.                                                         *)
C17_CanExecuteAsStated ==
    last.op = "canExecute"
    => /\ last.log = <<StatedEligible(ai, last.arg)>>
       /\ ai.health = 0 => last.log = <<FALSE>>
       /\ (~ai.hasTarget /\ last.arg \in {"Attack", "Chase"}) => last.log = <<FALSE>>

(* C17 witness: Defend can execute at the upper end of its band, ratio 0.6 *)
C17_Witness ==
    /\ last.op = "canExecute"
    /\ last.arg = "Defend"
    /\ 10 * ai.health = 6 * maxHealth
    /\ last.log = <<TRUE>>

(* C18: at health 0 selectBestBehavior leaves the active behaviour in place, *)
(* and StrategyAIController::update leaves the position, the speed and the   *)
(* active behaviour as they are: nothing is switched, nothing executed.      *)
C18_DeadEnemyIsLeftAlone ==
    [][ (ai.health = 0 /\ last'.op \in {"selectBestBehavior", "update"})
        => /\ ai'.behavior = ai.behavior
           /\ ai'.x = ai.x /\ ai'.y = ai.y
           /\ ai'.speed = ai.speed
           /\ Events(last'.log, "switch") = {}
           /\ Events(last'.log, "execute") = {} ]_vars

(* C18 witness: an update, with a selection, of an enemy that died chasing *)
C18_Witness ==
    /\ last.op = "update"
    /\ ai.health = 0
    /\ ai.behavior = "Chase"
    /\ ai.hasTarget
    /\ Events(last.log, "select") # {}

(* C19 as stated: with the enemy alive, none of Flee, Berserk, Attack,       *)
(* Defend, Chase able to execute and a behaviour other than Patrol active,   *)
(* selectBestBehavior makes Patrol active.                                   *)
C19_PatrolIsDefault ==
    [][ ( /\ last'.op = "selectBestBehavior"
          /\ ai.health > 0
          /\ ai.behavior \in BehaviorNames \ {"Patrol"}
          /\ \A b \in {"Flee", "Berserk", "Attack", "Defend", "Chase"} : ~canExecute(ai, b) )
        => ai'.behavior = "Patrol" ]_vars

(* C20 as stated: every call of StrategyAIController::update returns *)
C20_UpdateReturns == ~ai.crashed


---------------------------------------------------------------------------
(* Properties of the second group of claims *)

(* C21 as stated, specification SpecRegen: in Idle with mana below the cap  *)
(* of 50, update(dt) repeated with any positive dt (0.016 included) and no   *)
(* input eventually brings mana to the cap, and mana never exceeds the cap   *)
C21_RegenReachesCap ==
    /\ [](ch.mana <= idleManaCap)
    /\ <>(ch.mana >= idleManaCap)

(* The behaviours whose execute looks for the target *)
TargetDependent == {"Chase", "Attack", "Flee", "Berserk"}

(* C22 as stated, specification SpecAI: an update of an enemy without a      *)
(* target that ends under Chase, Attack, Flee or Berserk leaves position,     *)
(* speed and health as they were and invokes no attack                        *)
C22_NoTargetNothingToDo ==
    [][ /\ last'.op = "update"
        /\ ~ai.hasTarget
        /\ ~ai'.crashed
        /\ ai'.behavior \in TargetDependent
        => /\ ai'.x = ai.x
           /\ ai'.y = ai.y
           /\ ai'.speed = ai.speed
           /\ ai'.health = ai.health
           /\ Events(last'.log, "attack") = {} ]_vars

(* C23 as stated, specification SpecAI: whenever selectBestBehavior or       *)
(* forceBehavior makes a behaviour active, the cooldown timer of Attack and   *)
(* the timer of Defend are 0 and Patrol starts at the first waypoint,         *)
(* whatever was active before                                                 *)
C23_SwitchStartsFresh ==
    [][ /\ last'.op \in {"selectBestBehavior", "forceBehavior"}
        /\ Events(last'.log, "switch") # {}
        => /\ ai'.lastAttackTime = 0
           /\ ai'.defendTimer = 0
           /\ (ai'.behavior = "Patrol" => ai'.currentWaypoint = 0) ]_vars

(* The execute events of behaviour name in a log, as <<"execute", depth, name, dt>> *)
ExecutesOf(log, name) == {i \in Events(log, "execute") : log[i][3] = name}

(* The value a behaviour's timer has when its execute starts in the update   *)
(* with this log: 0 if the update made the behaviour active, the value       *)
(* before the update otherwise                                               *)
TimerAtExecute(log, name, before) ==
    IF \E i \in Events(log, "switch") : log[i][3] = name THEN 0 ELSE before

(* C24 as stated, specification SpecAI: an update that executes Defend      *)
(* halves the speed if Defend's accumulated time reaches the duration 2.0    *)
(* in this update and leaves the speed alone otherwise, so that the speed is *)
(* the speed at activation times 0.5 to the number of elapsed durations      *)
C24_DefendHalvesPerDuration ==
    [][ /\ last'.op = "update"
        /\ ~ai'.crashed
        /\ ExecutesOf(last'.log, "Defend") # {}
        => LET i == CHOOSE i \in ExecutesOf(last'.log, "Defend") : TRUE
               t == TimerAtExecute(last'.log, "Defend", ai.defendTimer) + last'.log[i][4]
           IN  ai'.speed = IF t >= defendDuration THEN ai.speed \div 2 ELSE ai.speed ]_vars

(* C25, specification Spec: handleInput in Idle makes the state Walking on  *)
(* 65 and 68, Jumping on 32 if the character is grounded, Attacking on 74    *)
(* and Casting on 75 if the mana is at least 10; on 32 in mid-air and on 75  *)
(* with less mana nothing changes and no hook runs.  No handleInput, in any  *)
(* state, enters Casting with mana below 10.                                 *)
C25_IdleInput ==
    [][ last'.op = "handleInput"
        => /\ ch.state = "idle"
              => CASE last'.arg \in {65, 68} -> ch'.state = "walking"
                   [] last'.arg = 32 ->
                        IF ch.grounded THEN ch'.state = "jumping"
                        ELSE ch' = ch /\ last'.log = <<>>
                   [] last'.arg = 74 -> ch'.state = "attacking"
                   [] last'.arg = 75 ->
                        IF ch.mana >= manaCost THEN ch'.state = "casting"
                        ELSE ch' = ch /\ last'.log = <<>>
                   [] OTHER -> TRUE
           /\ (\E i \in Events(last'.log, "enter") : last'.log[i][2] = "casting")
              => ch.mana >= manaCost ]_vars

(* C25 witness: the cast code arrived in Idle with 5 mana, less than the cost *)
C25_Witness ==
    /\ last.op = "handleInput"
    /\ last.arg = 75
    /\ ch.state = "idle"
    /\ ch.mana = 5

(* C26, specification Spec: handleInput in Attacking, whatever the code,     *)
(* leaves the state, the attack timer and every attribute as they are and    *)
(* runs no hook, so the attack code does not start the timer over; of the    *)
(* two calls of the driver, handleInput and update, only update ends an      *)
(* attack.                                                                   *)
C26_AttackIgnoresInput ==
    [][ /\ (last'.op = "handleInput" /\ ch.state = "attacking")
           => (ch' = ch /\ last'.log = <<>>)
        /\ (ch.state = "attacking" /\ ch'.state # "attacking" /\ last'.op # "setState")
           => last'.op = "update" ]_vars

(* C26 witness: the attack code arrived during an attack that had already    *)
(* run for some time                                                         *)
C26_Witness ==
    /\ last.op = "handleInput"
    /\ last.arg = 74
    /\ ch.state = "attacking"
    /\ ch.attackTimer > 0

(* C27, specification SpecAI: an update that executes Attack adds its        *)
(* deltaTime to the time accumulated since the activation or the previous    *)
(* attack; it invokes the attack, once, exactly if the sum has reached the    *)
(* cooldown 1.0, and then the accumulated time is 0 again, so that at least   *)
(* 1.0 of executed deltaTime lies between two attacks.  The position is as    *)
(* before.  An update that ends under Attack without executing it invokes no  *)
(* attack.                                                                    *)
C27_AttackCooldown ==
    [][ (last'.op = "update" /\ ~ai'.crashed)
        => /\ ExecutesOf(last'.log, "Attack") # {}
              => LET i == CHOOSE i \in ExecutesOf(last'.log, "Attack") : TRUE
                     t == TimerAtExecute(last'.log, "Attack", ai.lastAttackTime)
                              + last'.log[i][4]
                 IN  /\ ExecutesOf(last'.log, "Attack") = {i}
                     /\ Events(last'.log, "attack") =
                            (IF t >= attackCooldown THEN {i + 1} ELSE {})
                     /\ ai'.lastAttackTime = (IF t >= attackCooldown THEN 0 ELSE t)
                     /\ ai'.x = ai.x /\ ai'.y = ai.y
           /\ (ai'.behavior = "Attack" /\ ExecutesOf(last'.log, "Attack") = {})
              => Events(last'.log, "attack") = {} ]_vars

(* C27 witness: an update of 0.5 under an Attack that was already active     *)
(* invoked the attack, the cooldown having been reached over two updates     *)
C27_Witness ==
    /\ last.op = "update"
    /\ last.arg = 500
    /\ ai.behavior = "Attack"
    /\ Events(last.log, "switch") = {}
    /\ Events(last.log, "attack") # {}
    /\ ai.lastAttackTime = 0

(* C28, specification Spec: in every call each accepted change of state is  *)
(* the exit hook of the old state, the change, the enter hook of the new     *)
(* state, in this order and each hook once; no hook runs outside a change.   *)
(* A call that changed the state returns with the timer of the state it      *)
(* ends in at 0.  setState("casting") in Idle without the mana runs Idle's   *)
(* exit, Casting's enter, Casting's exit, Idle's enter, in this order.       *)
C28_HooksInOrder ==
    [][ last'.op \in {"handleInput", "update", "setState"}
        => LET log == last'.log
           IN  /\ \A i \in Events(log, "swap") :
                      /\ i > 1 /\ log[i - 1] = <<"exit", log[i][2]>>
                      /\ i < Len(log) /\ log[i + 1] = <<"enter", log[i][3]>>
               /\ \A i \in Events(log, "exit") : i < Len(log) /\ log[i + 1][1] = "swap"
               /\ \A i \in Events(log, "enter") : i > 1 /\ log[i - 1][1] = "swap"
               /\ (Events(log, "swap") # {} /\ ch'.state = "attacking")
                  => ch'.attackTimer = 0
               /\ (Events(log, "swap") # {} /\ ch'.state = "casting")
                  => ch'.castTimer = 0
               /\ (\E i \in Events(log, "enter") : log[i][2] = "casting" /\ ch.mana < manaCost)
                  => log = << <<"exit", "idle">>, <<"swap", "idle", "casting">>,
                              <<"enter", "casting">>, <<"exit", "casting">>,
                              <<"swap", "casting", "idle">>, <<"enter", "idle">> >> ]_vars

(* C28 witness: a call ran the nested change, six events in all *)
C28_Witness ==
    /\ last.op = "setState"
    /\ Len(last.log) = 6
    /\ last.log[3] = <<"enter", "casting">>
    /\ last.log[4] = <<"exit", "casting">>

(* C29 as stated, specification SpecScript: with the durations of the       *)
(* script the state is Walking after the first input, Jumping after the      *)
(* second, Attacking after the third and Casting after the fourth; the cast  *)
(* completes in the fourth update, which leaves Idle with mana 40, and the   *)
(* script ends in Idle with that mana                                        *)
C29_ScriptAsCommented ==
    last.arg.dts = simulateDts
    => /\ last.arg.pc = 1 => ch.state = "walking"
       /\ last.arg.pc = 3 => ch.state = "jumping"
       /\ last.arg.pc = 5 => ch.state = "attacking"
       /\ last.arg.pc = 7 => ch.state = "casting"
       /\ last.arg.pc = 8 => (ch.state = "idle" /\ ch.mana = maxMana - manaCost)
       /\ last.arg.pc = 10 => (ch.state = "idle" /\ ch.mana = maxMana - manaCost)

(* C30 as stated, specification SpecAI: an enemy under EasyAI is still      *)
(* under EasyAI after each of the calls BattleManager makes on it:           *)
(* setPlayerPosition (setTarget), damageEnemies (takeDamage) and             *)
(* updateBattle (update)                                                     *)
C30_EasyOnlyPatrols ==
    [][ (ai.behavior = "EasyAI" /\ last'.op \in {"setTarget", "takeDamage", "update"})
        => ai'.behavior = "EasyAI" ]_vars


---------------------------------------------------------------------------
(* Properties of the third group of claims *)

(* C31, specification SpecAI: forceBehavior with a name that is none of the *)
(* six leaves the enemy, the active behaviour and its timers as they are     *)
(* and runs nothing; with one of the six names it makes that behaviour       *)
(* active, its timers 0, whether or not it can execute, and changes nothing  *)
(* else.  An update that keeps an active behaviour that cannot execute runs  *)
(* no execute and leaves position, speed, health and timers as they are.     *)
C31_ForceBehavior ==
    [][ /\ last'.op = "forceBehavior"
           => IF last'.arg \in BehaviorNames
              THEN /\ ai' = [ai EXCEPT !.behavior = last'.arg,
                                       !.lastAttackTime = 0, !.defendTimer = 0]
                   /\ last'.log = << <<"switch", ai.behavior, last'.arg>> >>
              ELSE ai' = ai /\ last'.log = <<>>
        /\ ( /\ last'.op = "update" /\ ~ai'.crashed
             /\ Events(last'.log, "switch") = {}
             /\ ~canExecute(ai, ai.behavior) )
           => /\ Events(last'.log, "execute") = {}
              /\ [ai' EXCEPT !.timeSinceLastUpdate = 0, !.updates = 0]
                   = [ai EXCEPT !.timeSinceLastUpdate = 0, !.updates = 0] ]_vars

(* C31 witness: Attack was forced on an enemy without a target, and the      *)
(* update that followed kept Attack and ran no execute                       *)
C31_Witness ==
    /\ last.op = "update"
    /\ ai.behavior = "Attack"
    /\ ~ai.hasTarget
    /\ ai.health = maxHealth
    /\ Events(last.log, "enemyUpdate") # {}
    /\ Events(last.log, "execute") = {}

(* C32 as stated, specification SpecSelect: with health, target and          *)
(* position as they are, repeated calls of selectBestBehavior converge:      *)
(* from some call on the active behaviour is one and the same                *)
C32_SelectionConverges ==
    \E b \in BehaviorNames \cup {"EasyAI", "HardAI"} : <>[](ai.behavior = b)

(* C33 as stated, specification SpecLanding: once the state is Jumping,     *)
(* whatever the inputs between the updates, the character is eventually      *)
(* on the ground again, grounded, with y = 0 and in Idle                     *)
C33_JumpLands ==
    (ch.state = "jumping") ~> (ch.grounded /\ ch.y = 0 /\ ch.state = "idle")

(* C34 as stated, specification SpecLanding: whatever the inputs and the     *)
(* updates, the height y never exceeds the apex of one jump from the ground, *)
(* 300 * 300 / (2 * 500) = 90                                                *)
C34_HeightBelowApex == ch.y <= jumpApex * PosScale

(* C35, specification SpecLanding: in every state reached through           *)
(* handleInput and update, Idle, Walking and Casting are grounded with       *)
(* y = 0 and Jumping is not grounded; a grounded character is at y = 0 in    *)
(* Attacking too, the one state that occurs both grounded and in the air     *)
C35_GroundedAgrees ==
    /\ ch.state \in {"idle", "walking", "casting"} => (ch.grounded /\ ch.y = 0)
    /\ ch.state = "jumping" => ~ch.grounded
    /\ ch.state = "attacking" => (ch.grounded => ch.y = 0)
    /\ ch.state \in StateNames

(* C35 witness: an attack in mid-air, above the ground *)
C35_Witness ==
    /\ ch.state = "attacking"
    /\ ~ch.grounded
    /\ ch.y > 0
    /\ last.op = "update"

(* C36, specification Spec: after construction and after every call of      *)
(* handleInput, update and setState the moveSpeed is 100 (walkSpeed) if the  *)
(* active state is Walking and 0 in Idle, Jumping, Attacking and Casting     *)
C36_MoveSpeedFollowsState ==
    /\ ch.state \in StateNames
    /\ ch.moveSpeed = (IF ch.state = "walking" THEN walkSpeed ELSE 0)

(* C36 witness: a jump started from Walking; no enter hook of Jumping sets   *)
(* the speed, it is 0 through the exit hook of Walking                       *)
C36_Witness ==
    /\ last.op = "handleInput"
    /\ last.arg = 32
    /\ Swaps(last.log) = << <<"swap", "walking", "jumping">> >>
    /\ ch.state = "jumping"
    /\ ch.moveSpeed = 0

(* C37, specification Spec: the mana stays within 0..maxMana.  A call that  *)
(* changes it is an update in Idle, which raises it, or the update in        *)
(* Casting that completes the cast, which lowers it by exactly manaCost;     *)
(* every update that completes a cast started with at least manaCost, so     *)
(* the clamp at 0 never limits the deduction.  Every other call of           *)
(* handleInput, update and setState leaves the mana as it is.                *)
C37_ManaChanges ==
    [][ /\ ch'.mana >= 0 /\ ch'.mana <= maxMana
        /\ ch'.mana # ch.mana
           => /\ last'.op = "update"
              /\ \/ ch.state = "idle" /\ ch'.mana > ch.mana
                 \/ ch.state = "casting" /\ ch'.mana = ch.mana - manaCost
        /\ ( /\ last'.op = "update" /\ ch.state = "casting"
             /\ ch.castTimer + last'.arg >= castDuration )
           => (ch.mana >= manaCost /\ ch'.mana = ch.mana - manaCost)
        /\ (last'.op = "update" /\ ch.state = "casting"
               /\ ch.castTimer + last'.arg < castDuration)
           => ch'.mana = ch.mana ]_vars

(* C37 witness: the last 10 mana were spent by a cast that completed *)
C37_Witness ==
    /\ last.op = "update"
    /\ Swaps(last.log) = << <<"swap", "casting", "idle">> >>
    /\ ch.mana = 0

(* C38 as stated, specification SpecPair: under the same updateBattle       *)
(* calls the first enemy is at the same place and under the same behaviour   *)
(* in both battles, wherever the second enemy of each battle started         *)
C38_EnemiesIndependent ==
    /\ ai.a[1].x = ai.b[1].x
    /\ ai.a[1].y = ai.b[1].y
    /\ ai.a[1].behavior = ai.b[1].behavior

(* C39 as stated, specification SpecAI: an update that executes Berserk     *)
(* leaves the speed at 1.5 times the speed at activation: it multiplies the  *)
(* speed by 1.5 if it made Berserk active and leaves it alone if Berserk     *)
(* was active before                                                         *)
C39_BerserkSpeedOnce ==
    [][ /\ last'.op = "update"
        /\ ~ai'.crashed
        /\ ExecutesOf(last'.log, "Berserk") # {}
        => IF \E i \in Events(last'.log, "switch") : last'.log[i][3] = "Berserk"
           THEN 2 * ai'.speed = 3 * ai.speed
           ELSE ai'.speed = ai.speed ]_vars

(* C40 as stated, specification SpecPursuit: the repeated updates make      *)
(* Chase active at some time, and from some time on the active behaviour is  *)
(* Attack for ever and the position no longer changes                        *)
C40_PursuitReachesAttack ==
    /\ <>(ai.behavior = "Chase")
    /\ <>[](ai.behavior = "Attack")
    /\ <>[][ai'.x = ai.x /\ ai'.y = ai.y]_vars

(* C40 amended, specification SpecPursuit: the repeated updates make Attack  *)
(* active, and from then on the active behaviour stays Attack and the        *)
(* position no longer changes.  The only changes of behaviour are Patrol to  *)
(* Chase, Chase to Attack and Patrol to Attack: the selection that ends      *)
(* Patrol makes Chase active if the enemy is then farther from the target    *)
(* than the attack range, and Attack, without any Chase, if Patrol's own     *)
(* movement has brought it within the range by then.                         *)
C40_AttackReachedAndKept ==
    /\ <>[](ai.behavior = "Attack")
    /\ [][ /\ ai.behavior = "Attack"
              => (ai'.behavior = "Attack" /\ ai'.x = ai.x /\ ai'.y = ai.y)
           /\ ai.behavior = "Chase" => ai'.behavior \in {"Chase", "Attack"}
           /\ (ai.behavior = "Patrol" /\ ai'.behavior # "Patrol")
              => ai'.behavior = (IF DistSqToTarget(ai) > RangeSq THEN "Chase"
                                 ELSE "Attack") ]_vars

(* C40 witness: the selection replaced Chase by Attack, the enemy having     *)
(* come within the range of the target by chasing it                         *)
C40_Witness ==
    /\ last.op = "update"
    /\ ai.behavior = "Attack"
    /\ \E i \in Events(last.log, "switch") : last.log[i] = <<"switch", "Chase", "Attack">>
    /\ DistSqToTarget(ai) <= RangeSq

=============================================================================
